---- MODULE Spec2Model ----
(***************************************************************************)
(* Model of the DMODEL decoder of driver_dmodel.py: _decode_header,        *)
(* _read_vertices, _parse_poly_commands and the decode pipeline run by     *)
(* IMPORT_SCENE_OT_driver_dmodel.execute.                                  *)
(*                                                                         *)
(* A byte buffer is a sequence of integers 0..255; byte offset k of the    *)
(* buffer is element k + 1 of the sequence.  A Python exception is a       *)
(* record [type, fn, what, a, b]; a float UV coordinate byte / 256.0 is    *)
(* the exact reduced fraction <<numerator, denominator>>; a 32-bit float   *)
(* is its decoded sign / exponent / mantissa fields.                       *)
(***************************************************************************)
EXTENDS Integers, Sequences, FiniteSets, TLC

VARIABLES data, pc, hdr, i, verts_local, verts,
          cmd_offset, poly_cmd_count, p, cmd_idx,
          tris, uvs_per_tri, mat_ids, ret, err, report, result, geometry

vars == <<data, pc, hdr, i, verts_local, verts,
          cmd_offset, poly_cmd_count, p, cmd_idx,
          tris, uvs_per_tri, mat_ids, ret, err, report, result, geometry>>

\* ---------- bounds of the explored inputs ----------

\* commands in a generated command stream (direct calls of the interpreter)
MaxCmds == 2
\* bytes cut from the end of a generated command stream
MaxCut == 31
\* vertex records in a generated file, and the largest vertex_count field
MaxVerts == 2
\* commands in a generated file
MaxFileCmds == 1
\* bytes cut from the end of a generated file
MaxFileCut == 1

\* ---------- values ----------

None == [type |-> "None"]

\* a returned Python list
List(items) == [type |-> "list", items |-> items]

\* self.report(level, message) with the numbers the message carries
Report(level, msg, a, b) == [level |-> level, msg |-> msg, a |-> a, b |-> b]

Exception(type, fn, what, a, b) ==
    [type |-> type, fn |-> fn, what |-> what, a |-> a, b |-> b]

RECURSIVE GCD(_, _)
GCD(x, y) == IF y = 0 THEN x ELSE GCD(y, x % y)

\* byte / 256.0 : every byte is exactly representable, the quotient is the
\* rational byte/256, kept in lowest terms so that equal floats are equal
UV(byte) == <<byte \div GCD(byte, 256), 256 \div GCD(byte, 256)>>

\* the float literal 0.0
Zero == <<0, 1>>

\* ---------- low-level reads ----------

\* struct.unpack_from raises struct.error unless off + size <= len(data)
Unpackable(d, off, size) == off + size <= Len(d)

\* data[off] raises IndexError unless off < len(data)
Indexable(d, off) == off < Len(d)

_read_u16(d, off) == d[off + 1] + 256 * d[off + 2]

_read_u32(d, off) ==
    d[off + 1] + 256 * d[off + 2] + 65536 * d[off + 3] + 16777216 * d[off + 4]

\* one little-endian IEEE-754 binary32 as unpacked by the "f" format
Float32(d, off) ==
    [neg |-> d[off + 4] \div 128 = 1,
     exp |-> (d[off + 4] % 128) * 2 + d[off + 3] \div 128,
     man |-> (d[off + 3] % 128) * 65536 + d[off + 2] * 256 + d[off + 1]]

\* f / 10.0 and -f / 10.0 : the sign flips, the magnitude is divided by ten
Div10(f) == [neg |-> f.neg, exp |-> f.exp, man |-> f.man, div |-> 10]
NegDiv10(f) == [neg |-> ~f.neg, exp |-> f.exp, man |-> f.man, div |-> 10]

\* ---------- _decode_header ----------

HeaderSize == 48

\* _decode_header reading mesh_count at 0x18
_decode_header_MeshAt18(d) ==
    IF Len(d) < HeaderSize
    THEN [err |-> Exception("ValueError", "_decode_header",
                            "File too small to be a valid DMODEL", -1, -1),
          val |-> None]
    ELSE [err |-> None,
          val |-> [vertex_count   |-> _read_u16(d, 20),
                   poly_cmd_count |-> _read_u16(d, 22),
                   mesh_count     |-> _read_u16(d, 24),
                   vert_offset    |-> _read_u32(d, 32),
                   plane_offset   |-> _read_u32(d, 36),
                   normal_offset  |-> _read_u32(d, 40),
                   cmd_offset     |-> _read_u32(d, 44)]]

_decode_header(d) ==
    IF Len(d) < HeaderSize
    THEN [err |-> Exception("ValueError", "_decode_header",
                            "File too small to be a valid DMODEL", -1, -1),
          val |-> None]
    ELSE [err |-> None,
          val |-> [vertex_count   |-> _read_u16(d, 20),
                   poly_cmd_count |-> _read_u16(d, 22),
                   mesh_count     |-> _read_u16(d, 26),
                   vert_offset    |-> _read_u32(d, 32),
                   plane_offset   |-> _read_u32(d, 36),
                   normal_offset  |-> _read_u32(d, 40),
                   cmd_offset     |-> _read_u32(d, 44)]]

\* ---------- _read_vertices, one iteration ----------

VertexAt(d, off) ==
    <<NegDiv10(Float32(d, off)), NegDiv10(Float32(d, off + 4)),
      Div10(Float32(d, off + 8))>>

\* VertexOffset with the stride of two floats
VertexOffset_Stride8(base, k) == base + k * 8

VertexOffset(base, k) == base + k * 12

ReadVertexStep(d, base, k) ==
    IF ~Unpackable(d, VertexOffset(base, k), 12)
    THEN [err |-> Exception("struct.error", "_read_vertices",
                            "unpack_from requires a buffer", k,
                            VertexOffset(base, k)),
          val |-> None]
    ELSE [err |-> None, val |-> VertexAt(d, VertexOffset(base, k))]

\* ---------- _parse_poly_commands, one command ----------

Emit(adv, t, u, m) == [err |-> None, adv |-> adv, tris |-> t, uvs |-> u, mats |-> m]

Raise(e) == [err |-> e, adv |-> 0, tris |-> <<>>, uvs |-> <<>>, mats |-> <<>>]

StructError(off) ==
    Exception("struct.error", "_parse_poly_commands",
              "unpack_from requires a buffer", -1, off)

IndexError(off) ==
    Exception("IndexError", "_parse_poly_commands", "index out of range", -1, off)

\* Op10 without its mat_ids.append(mesh_id)
Op10_NoMatId(d, q, mesh_id) ==
    IF ~Unpackable(d, q + 2, 6) THEN Raise(StructError(q + 2))
    ELSE Emit(16,
              << <<_read_u16(d, q + 2), _read_u16(d, q + 4), _read_u16(d, q + 6)>> >>,
              << <<(<<Zero, Zero>>), <<Zero, Zero>>, <<Zero, Zero>>>> >>,
              <<>>)

\* op 0x10: simple triangle, indices only
Op10(d, q, mesh_id) ==
    IF ~Unpackable(d, q + 2, 6) THEN Raise(StructError(q + 2))
    ELSE Emit(16,
              << <<_read_u16(d, q + 2), _read_u16(d, q + 4), _read_u16(d, q + 6)>> >>,
              << <<(<<Zero, Zero>>), <<Zero, Zero>>, <<Zero, Zero>>>> >>,
              <<mesh_id>>)

\* Op12 appending the indices in file order
Op12_FileOrder(d, q, mesh_id) ==
    IF ~Unpackable(d, q + 2, 2) THEN Raise(StructError(q + 2))
    ELSE IF ~Unpackable(d, q + 4, 2) THEN Raise(StructError(q + 4))
    ELSE IF ~Unpackable(d, q + 6, 2) THEN Raise(StructError(q + 6))
    ELSE LET a == _read_u16(d, q + 2)
             b == _read_u16(d, q + 4)
             c == _read_u16(d, q + 6)
         IN Emit(20,
                 << <<a, b, c>> >>,
                 << <<(<<Zero, Zero>>), <<Zero, Zero>>, <<Zero, Zero>>>> >>,
                 <<mesh_id>>)

\* op 0x12: triangle with reordered indices, no UVs
Op12(d, q, mesh_id) ==
    IF ~Unpackable(d, q + 2, 2) THEN Raise(StructError(q + 2))
    ELSE IF ~Unpackable(d, q + 4, 2) THEN Raise(StructError(q + 4))
    ELSE IF ~Unpackable(d, q + 6, 2) THEN Raise(StructError(q + 6))
    ELSE LET a == _read_u16(d, q + 2)
             b == _read_u16(d, q + 4)
             c == _read_u16(d, q + 6)
         IN Emit(20,
                 << <<c, b, a>> >>,
                 << <<(<<Zero, Zero>>), <<Zero, Zero>>, <<Zero, Zero>>>> >>,
                 <<mesh_id>>)

\* Op13 advancing by the length of a 0x12 record
Op13_Short(d, q, mesh_id) == Emit(20, <<>>, <<>>, <<>>)

\* op 0x13: skipped, no geometry
Op13(d, q, mesh_id) == Emit(22, <<>>, <<>>, <<>>)

\* the first offset of offs (in order) that data[...] cannot index, or -1
RECURSIVE FirstBadIndex(_, _)
FirstBadIndex(d, offs) ==
    IF offs = <<>> THEN -1
    ELSE IF ~Indexable(d, Head(offs)) THEN Head(offs)
    ELSE FirstBadIndex(d, Tail(offs))

\* the first of the u16 reads at offs that unpack_from rejects, or -1
RECURSIVE FirstBadU16(_, _)
FirstBadU16(d, offs) ==
    IF offs = <<>> THEN -1
    ELSE IF ~Unpackable(d, Head(offs), 2) THEN Head(offs)
    ELSE FirstBadU16(d, Tail(offs))

\* ops 0x14 and 0x16: single triangle with UVs, UV bytes from offset uv
TriUV(d, q, mesh_id, uv, adv) ==
    LET badU == FirstBadU16(d, <<q + 2, q + 4, q + 6>>)
        badI == FirstBadIndex(d, <<q + uv, q + uv + 1, q + uv + 2,
                                   q + uv + 3, q + uv + 4, q + uv + 5>>)
    IN IF badU # -1 THEN Raise(StructError(badU))
       ELSE IF badI # -1 THEN Raise(IndexError(badI))
       ELSE LET a == _read_u16(d, q + 2)
                b == _read_u16(d, q + 4)
                c == _read_u16(d, q + 6)
                u2 == UV(d[q + uv + 1])
                v2 == UV(d[q + uv + 2])
                u1 == UV(d[q + uv + 3])
                v1 == UV(d[q + uv + 4])
                u0 == UV(d[q + uv + 5])
                v0 == UV(d[q + uv + 6])
            IN Emit(adv,
                    << <<c, b, a>> >>,
                    << <<(<<u0, v0>>), <<u1, v1>>, <<u2, v2>>>> >>,
                    <<mesh_id>>)

Op14(d, q, mesh_id) == TriUV(d, q, mesh_id, 10, 20)

\* Op16 reading its UV bytes where a 0x14 record keeps them
Op16_BasicUV(d, q, mesh_id) == TriUV(d, q, mesh_id, 10, 24)

Op16(d, q, mesh_id) == TriUV(d, q, mesh_id, 14, 24)

\* QuadUV giving the second triangle the UVs (D, B, C)
QuadUV_SecondDBC(d, q, mesh_id, uv, adv) ==
    LET badU == FirstBadU16(d, <<q + 2, q + 4, q + 6, q + 8>>)
        badI == FirstBadIndex(d, <<q + uv, q + uv + 1, q + uv + 2, q + uv + 3,
                                   q + uv + 4, q + uv + 5, q + uv + 6, q + uv + 7>>)
    IN IF badU # -1 THEN Raise(StructError(badU))
       ELSE IF badI # -1 THEN Raise(IndexError(badI))
       ELSE LET a == _read_u16(d, q + 2)
                b == _read_u16(d, q + 4)
                c == _read_u16(d, q + 6)
                dd == _read_u16(d, q + 8)
                uC == UV(d[q + uv + 1])
                vC == UV(d[q + uv + 2])
                uB == UV(d[q + uv + 3])
                vB == UV(d[q + uv + 4])
                uA == UV(d[q + uv + 5])
                vA == UV(d[q + uv + 6])
                uD == UV(d[q + uv + 7])
                vD == UV(d[q + uv + 8])
            IN Emit(adv,
                    << <<c, b, a>>, <<dd, c, a>> >>,
                    << <<(<<uA, vA>>), <<uB, vB>>, <<uC, vC>>>>,
                       <<(<<uD, vD>>), <<uB, vB>>, <<uC, vC>>>> >>,
                    <<mesh_id, mesh_id>>)

\* ops 0x15 and 0x17: quad to two triangles with UVs, UV bytes from offset uv
QuadUV(d, q, mesh_id, uv, adv) ==
    LET badU == FirstBadU16(d, <<q + 2, q + 4, q + 6, q + 8>>)
        badI == FirstBadIndex(d, <<q + uv, q + uv + 1, q + uv + 2, q + uv + 3,
                                   q + uv + 4, q + uv + 5, q + uv + 6, q + uv + 7>>)
    IN IF badU # -1 THEN Raise(StructError(badU))
       ELSE IF badI # -1 THEN Raise(IndexError(badI))
       ELSE LET a == _read_u16(d, q + 2)
                b == _read_u16(d, q + 4)
                c == _read_u16(d, q + 6)
                dd == _read_u16(d, q + 8)
                uC == UV(d[q + uv + 1])
                vC == UV(d[q + uv + 2])
                uB == UV(d[q + uv + 3])
                vB == UV(d[q + uv + 4])
                uA == UV(d[q + uv + 5])
                vA == UV(d[q + uv + 6])
                uD == UV(d[q + uv + 7])
                vD == UV(d[q + uv + 8])
            IN Emit(adv,
                    << <<c, b, a>>, <<dd, c, a>> >>,
                    << <<(<<uA, vA>>), <<uB, vB>>, <<uC, vC>>>>,
                       <<(<<uD, vD>>), <<uA, vA>>, <<uC, vC>>>> >>,
                    <<mesh_id, mesh_id>>)

Op15(d, q, mesh_id) == QuadUV(d, q, mesh_id, 12, 24)

Op17(d, q, mesh_id) == QuadUV(d, q, mesh_id, 20, 32)

UnknownOpcode(op, q) ==
    Exception("ValueError", "_parse_poly_commands", "Unknown opcode", op, q)

Dispatch(d, q, op, mesh_id) ==
    CASE op = 16 -> Op10(d, q, mesh_id)
      [] op = 18 -> Op12(d, q, mesh_id)
      [] op = 19 -> Op13(d, q, mesh_id)
      [] op = 20 -> Op14(d, q, mesh_id)
      [] op = 21 -> Op15(d, q, mesh_id)
      [] op = 22 -> Op16(d, q, mesh_id)
      [] op = 23 -> Op17(d, q, mesh_id)
      [] OTHER   -> Raise(UnknownOpcode(op, q))

CommandBufferOverrun(idx, q) ==
    Exception("ValueError", "_parse_poly_commands", "Command buffer overrun", idx, q)

\* the body of the for loop for command idx with the cursor at q
ParseStep(d, q, idx) ==
    IF q >= Len(d) THEN Raise(CommandBufferOverrun(idx, q))
    ELSE IF ~Indexable(d, q + 1) THEN Raise(IndexError(q + 1))
    ELSE Dispatch(d, q, d[q + 1], d[q + 2])

\* ---------- generated inputs ----------

SeqsUpTo(S, n) == UNION {[1..m -> S] : m \in 0..n}

\* record length of each opcode in the file format (0 for any other byte)
RecordLength(op) ==
    CASE op = 16 -> 16
      [] op = 18 -> 20
      [] op = 19 -> 22
      [] op = 20 -> 20
      [] op = 21 -> 24
      [] op = 22 -> 24
      [] op = 23 -> 32
      [] OTHER   -> 0

KnownOps == {16, 18, 19, 20, 21, 22, 23}

\* opcode bytes of generated records: the seven known ones and 0xFF
GenOps == KnownOps \cup {255}

\* record k of a stream: opcode, mesh_id 7 + k, then pairwise distinct bytes
\* (a record with an unrecognised opcode is given 4 bytes)
GenRecord(op, k) ==
    [j \in 1..(IF op \in KnownOps THEN RecordLength(op) ELSE 4) |->
        IF j = 1 THEN op
        ELSE IF j = 2 THEN 7 + k
        ELSE (40 * k + 5 * (j - 1) + 1) % 256]

RECURSIVE GenStream(_, _)
GenStream(ops, k) ==
    IF ops = <<>> THEN <<>>
    ELSE GenRecord(Head(ops), k) \o GenStream(Tail(ops), k + 1)

Truncate(d, cut) == SubSeq(d, 1, IF cut >= Len(d) THEN 0 ELSE Len(d) - cut)

\* bytes before the command stream
GenPrefix(n) == [j \in 1..n |-> 238]

\* start offsets of the command stream in a generated buffer
GenCmdOffsets == {0, 3}

\* command counts tried on a stream of n records: one less (bytes are left
\* unread), n, and one more (the cursor runs off the end)
GenCounts(n) == {c \in {n - 1, n, n + 1} : c >= 0}

\* bytes cut from the end of a stream: any part of its last record (of the
\* prefix when there is no record), when the count reaches that record
GenCuts(ops, off, cnt) ==
    LET last == IF ops = <<>> THEN off ELSE Len(GenRecord(ops[Len(ops)], 0))
    IN IF cnt < Len(ops) THEN {0}
       ELSE 0..(IF last < MaxCut THEN last ELSE MaxCut)

\* opcode bytes of the records of generated files
GenFileOps == {16, 19, 21, 255}

\* one vertex record: twelve pairwise distinct bytes
GenVertex(k) == [j \in 1..12 |-> (100 * k + 9 * j + 3) % 256]

RECURSIVE GenVertices(_, _)
GenVertices(n, k) ==
    IF n = 0 THEN <<>> ELSE GenVertex(k) \o GenVertices(n - 1, k + 1)

\* a 0x30 byte header with the given low bytes of its fields; every other
\* byte of the header is distinct from its neighbours
GenHeader(vc, pcc, vo, co) ==
    [j \in 1..HeaderSize |->
        CASE j = 21 -> vc
          [] j = 22 -> 0
          [] j = 23 -> pcc
          [] j = 24 -> 0
          [] j = 33 -> vo
          [] j \in {34, 35, 36} -> 0
          [] j = 45 -> co
          [] j \in {46, 47, 48} -> 0
          [] OTHER -> 60 + j]

\* the files read by execute: a header, vertex records, a command stream
\* (cmd_offset points at it, or beyond the file), cut short by up to
\* MaxFileCut bytes or down to less than a header
Files ==
    { Truncate(GenHeader(vc, pcc, vo, IF beyond THEN 250 ELSE HeaderSize + 12 * nv)
               \o GenVertices(nv, 0) \o GenStream(ops, 0), cut) :
        vc \in 0..MaxVerts, pcc \in 0..MaxFileCmds,
        vo \in {HeaderSize, HeaderSize + 12 * MaxVerts + 1},
        beyond \in BOOLEAN,
        nv \in 0..MaxVerts, ops \in SeqsUpTo(GenFileOps, MaxFileCmds),
        cut \in 0..MaxFileCut }
    \cup
    { SubSeq(GenHeader(vc, 1, HeaderSize, HeaderSize), 1, n) :
        vc \in 0..MaxVerts, n \in {0, 1, HeaderSize - 1} }

\* ---------- actions ----------

\* execute: data = path.read_bytes(), or the read fails
ReadFile ==
    /\ pc = "read_file"
    /\ \/ /\ \E f \in Files : data' = f
          /\ pc' = "decode_header"
          /\ UNCHANGED <<report, result>>
       \/ /\ report' = Report("ERROR", "Failed to read file", 0, 0)
          /\ result' = "CANCELLED"
          /\ pc' = "done"
          /\ UNCHANGED data
    /\ UNCHANGED <<hdr, i, verts_local, verts, cmd_offset, poly_cmd_count, p,
                   cmd_idx, tris, uvs_per_tri, mat_ids, ret, err, geometry>>

\* execute: hdr = _decode_header(data), then the call of _read_vertices
DecodeHeader ==
    /\ pc = "decode_header"
    /\ LET r == _decode_header(data)
       IN IF r.err # None
          THEN /\ err' = r.err
               /\ pc' = "raised"
               /\ UNCHANGED <<hdr, i, verts_local>>
          ELSE /\ hdr' = r.val
               /\ i' = 0
               /\ verts_local' = <<>>
               /\ pc' = "read_vertices"
               /\ UNCHANGED err
    /\ UNCHANGED <<data, verts, cmd_offset, poly_cmd_count, p, cmd_idx,
                   tris, uvs_per_tri, mat_ids, ret, report, result, geometry>>

\* _read_vertices: one iteration of the loop
ReadVertex ==
    /\ pc = "read_vertices"
    /\ i < hdr.vertex_count
    /\ LET r == ReadVertexStep(data, hdr.vert_offset, i)
       IN IF r.err # None
          THEN /\ err' = r.err
               /\ pc' = "raised"
               /\ UNCHANGED <<i, verts_local>>
          ELSE /\ verts_local' = Append(verts_local, r.val)
               /\ i' = i + 1
               /\ UNCHANGED <<pc, err>>
    /\ UNCHANGED <<data, hdr, verts, cmd_offset, poly_cmd_count, p, cmd_idx,
                   tris, uvs_per_tri, mat_ids, ret, report, result, geometry>>

\* _read_vertices returns; execute calls _parse_poly_commands
ReadVerticesReturn ==
    /\ pc = "read_vertices"
    /\ i >= hdr.vertex_count
    /\ verts' = List(verts_local)
    /\ cmd_offset' = hdr.cmd_offset
    /\ poly_cmd_count' = hdr.poly_cmd_count
    /\ p' = hdr.cmd_offset
    /\ cmd_idx' = 0
    /\ tris' = <<>>
    /\ uvs_per_tri' = <<>>
    /\ mat_ids' = <<>>
    /\ pc' = "parse"
    /\ UNCHANGED <<data, hdr, i, verts_local, ret, err, report, result, geometry>>

\* _parse_poly_commands: one iteration of the loop
ParseCommand ==
    /\ pc = "parse"
    /\ cmd_idx < poly_cmd_count
    /\ LET r == ParseStep(data, p, cmd_idx)
       IN IF r.err # None
          THEN /\ err' = r.err
               /\ pc' = "raised"
               /\ UNCHANGED <<p, cmd_idx, tris, uvs_per_tri, mat_ids>>
          ELSE /\ tris' = tris \o r.tris
               /\ uvs_per_tri' = uvs_per_tri \o r.uvs
               /\ mat_ids' = mat_ids \o r.mats
               /\ p' = p + r.adv
               /\ cmd_idx' = cmd_idx + 1
               /\ UNCHANGED <<pc, err>>
    /\ UNCHANGED <<data, hdr, i, verts_local, verts, cmd_offset, poly_cmd_count,
                   ret, report, result, geometry>>

\* _parse_poly_commands: return tris, uvs_per_tri, mat_ids
ParseReturn ==
    /\ pc = "parse"
    /\ cmd_idx >= poly_cmd_count
    /\ ret' = [tris |-> tris, uvs_per_tri |-> uvs_per_tri, mat_ids |-> mat_ids]
    /\ pc' = "returned"
    /\ UNCHANGED <<data, hdr, i, verts_local, verts, cmd_offset, poly_cmd_count,
                   p, cmd_idx, tris, uvs_per_tri, mat_ids, err, report, result,
                   geometry>>

\* execute: except Exception: report the decode error and cancel
Except ==
    /\ pc = "raised"
    /\ report' = Report("ERROR", "Failed to decode DMODEL", 0, 0)
    /\ result' = "CANCELLED"
    /\ pc' = "done"
    /\ UNCHANGED <<data, hdr, i, verts_local, verts, cmd_offset, poly_cmd_count,
                   p, cmd_idx, tris, uvs_per_tri, mat_ids, ret, err, geometry>>

\* execute: hand the decoded lists to _build_mesh_object, report and finish
BuildMesh ==
    /\ pc = "returned"
    /\ geometry' = [verts |-> verts.items, tris |-> ret.tris,
                    uvs_per_tri |-> ret.uvs_per_tri, mat_ids |-> ret.mat_ids]
    /\ report' = Report("INFO", "Imported", Len(verts.items), Len(ret.tris))
    /\ result' = "FINISHED"
    /\ pc' = "done"
    /\ UNCHANGED <<data, hdr, i, verts_local, verts, cmd_offset, poly_cmd_count,
                   p, cmd_idx, tris, uvs_per_tri, mat_ids, ret, err>>

\* ---------- specifications ----------

\* the import operator, from the moment execute is entered
Init ==
    /\ pc = "read_file"
    /\ data = <<>>
    /\ hdr = None
    /\ i = 0
    /\ verts_local = <<>>
    /\ verts = None
    /\ cmd_offset = 0
    /\ poly_cmd_count = 0
    /\ p = 0
    /\ cmd_idx = 0
    /\ tris = <<>>
    /\ uvs_per_tri = <<>>
    /\ mat_ids = <<>>
    /\ ret = None
    /\ err = None
    /\ report = None
    /\ result = "None"
    /\ geometry = None

Next ==
    \/ ReadFile
    \/ DecodeHeader
    \/ ReadVertex
    \/ ReadVerticesReturn
    \/ ParseCommand
    \/ ParseReturn
    \/ Except
    \/ BuildMesh

Spec == Init /\ [][Next]_vars

\* a direct call _parse_poly_commands(data, cmd_offset, poly_cmd_count)
InitParse ==
    /\ pc = "parse"
    /\ \E ops \in SeqsUpTo(GenOps, MaxCmds), off \in GenCmdOffsets :
          \E cnt \in GenCounts(Len(ops)) :
             \E cut \in GenCuts(ops, off, cnt) :
                /\ data = Truncate(GenPrefix(off) \o GenStream(ops, 0), cut)
                /\ cmd_offset = off
                /\ p = off
                /\ poly_cmd_count = cnt
    /\ hdr = None
    /\ i = 0
    /\ verts_local = <<>>
    /\ verts = None
    /\ cmd_idx = 0
    /\ tris = <<>>
    /\ uvs_per_tri = <<>>
    /\ mat_ids = <<>>
    /\ ret = None
    /\ err = None
    /\ report = None
    /\ result = "None"
    /\ geometry = None

NextParse ==
    \/ ParseCommand
    \/ ParseReturn

SpecParse == InitParse /\ [][NextParse]_vars

\* ---------- properties ----------

\* little-endian 16 and 32 bit values of the file format
LE16(d, off) == d[off + 1] + 256 * d[off + 2]

LE32(d, off) == LE16(d, off) + 65536 * LE16(d, off + 2)

\* the fraction f equals byte / 256
IsByteOver256(f, byte) == f[2] > 0 /\ f[1] * 256 = byte * f[2]

\* the corner <<u, v>> carries the UV byte pair stored at offset off
CornerIs(corner, d, off) ==
    /\ IsByteOver256(corner[1], d[off + 1])
    /\ IsByteOver256(corner[2], d[off + 2])

\* the corner is (0.0, 0.0)
CornerIsZero(corner) == corner[1][1] = 0 /\ corner[2][1] = 0

\* the next command to be processed is a complete record with opcode op
AtCommand(op) ==
    /\ pc = "parse"
    /\ cmd_idx < poly_cmd_count
    /\ p < Len(data)
    /\ data[p + 1] = op
    /\ p + RecordLength(op) <= Len(data)

\* the step appends exactly k triangles and leaves the earlier ones alone
Appends(k) ==
    /\ pc' = "parse"
    /\ Len(tris') = Len(tris) + k
    /\ Len(uvs_per_tri') = Len(uvs_per_tri) + k
    /\ Len(mat_ids') = Len(mat_ids) + k
    /\ SubSeq(tris', 1, Len(tris)) = tris
    /\ SubSeq(uvs_per_tri', 1, Len(uvs_per_tri)) = uvs_per_tri
    /\ SubSeq(mat_ids', 1, Len(mat_ids)) = mat_ids

Parallel(t, u, m) ==
    /\ Len(t) = Len(u)
    /\ Len(u) = Len(m)
    /\ \A k \in 1..Len(u) : Len(u[k]) = 3

\* C1: the three output lists of _parse_poly_commands have equal length after
\* every processed command and in the returned value, and every entry of
\* uvs_per_tri has exactly three corners.
C1_ParallelLists ==
    /\ Parallel(tris, uvs_per_tri, mat_ids)
    /\ ret # None => Parallel(ret.tris, ret.uvs_per_tri, ret.mat_ids)

C1_Witness ==
    /\ pc = "returned"
    /\ Len(ret.tris) >= 3
    /\ Len(ret.mat_ids) >= 3

\* C2: a command that starts inside the buffer but whose record would end
\* past len(data) makes _parse_poly_commands fail with the command buffer
\* overrun error naming that command's index.
C2_TruncatedRecordOverrun ==
    [][ (/\ pc = "parse"
         /\ cmd_idx < poly_cmd_count
         /\ p < Len(data)
         /\ data[p + 1] \in KnownOps
         /\ p + RecordLength(data[p + 1]) > Len(data))
        => (/\ pc' = "raised"
            /\ err'.what = "Command buffer overrun"
            /\ err'.a = cmd_idx) ]_vars

\* C3: an unrecognised opcode byte at the cursor, anywhere in the buffer,
\* makes _parse_poly_commands fail with the unknown opcode error naming the
\* opcode and the offset.
C3_UnknownOpcodeAnywhere ==
    [][ (/\ pc = "parse"
         /\ cmd_idx < poly_cmd_count
         /\ p < Len(data)
         /\ data[p + 1] \notin KnownOps)
        => (/\ pc' = "raised"
            /\ err'.what = "Unknown opcode"
            /\ err'.a = data[p + 1]
            /\ err'.b = p) ]_vars

\* C4: a header whose cmd_offset is greater than len(data) ends the decode
\* in an error and no geometry, whatever poly_cmd_count is.
C4_CmdOffsetBeyondBuffer ==
    (pc = "done" /\ hdr # None /\ hdr.cmd_offset > Len(data))
        => (result = "CANCELLED" /\ geometry = None)

\* _decode_header has run on the file that was read
HeaderDecoded ==
    /\ pc \notin {"read_file", "decode_header"}
    /\ (report # None => report.msg # "Failed to read file")

\* _read_vertices has run to its end, by a return or by an exception
VerticesRead == verts # None \/ (err # None /\ err.fn = "_read_vertices")

\* C5: _read_vertices returns exactly vertex_count vertices, the k-th built
\* from the 12 bytes at vert_offset + k*12, when vert_offset +
\* vertex_count*12 <= len(data); it fails with the out of range error of the
\* read and returns no list when one of those reads would pass the end.
C5_ReadVertices ==
    (HeaderDecoded /\ hdr # None /\ VerticesRead) =>
        LET base == LE32(data, 32)
            count == LE16(data, 20)
        IN /\ base + count * 12 <= Len(data) =>
                /\ verts # None
                /\ Len(verts.items) = count
                /\ \A k \in 0..(count - 1) :
                      verts.items[k + 1] = VertexAt(data, base + k * 12)
           /\ (\E k \in 0..(count - 1) : base + k * 12 + 12 > Len(data)) =>
                /\ verts = None
                /\ err.type = "struct.error"
                /\ err.fn = "_read_vertices"
                /\ geometry = None

C5_Witness ==
    /\ pc = "parse"
    /\ hdr # None
    /\ hdr.vertex_count = 2
    /\ verts # None
    /\ Len(verts.items) = 2

\* C6: _decode_header fails with the file too small error on every buffer
\* shorter than 0x30 bytes, and on a buffer of 0x30 bytes or more returns the
\* seven fields read at 0x14, 0x16, 0x1A (u16) and 0x20, 0x24, 0x28, 0x2C
\* (u32), whatever their values.
C6_DecodeHeader ==
    HeaderDecoded =>
        /\ Len(data) < 48 =>
              /\ hdr = None
              /\ err # None
              /\ err.type = "ValueError"
              /\ err.fn = "_decode_header"
              /\ geometry = None
        /\ Len(data) >= 48 =>
              /\ hdr = [vertex_count   |-> LE16(data, 20),
                        poly_cmd_count |-> LE16(data, 22),
                        mesh_count     |-> LE16(data, 26),
                        vert_offset    |-> LE32(data, 32),
                        plane_offset   |-> LE32(data, 36),
                        normal_offset  |-> LE32(data, 40),
                        cmd_offset     |-> LE32(data, 44)]
              /\ (err # None => err.fn # "_decode_header")

C6_Witness ==
    /\ pc = "read_vertices"
    /\ Len(data) >= 48
    /\ hdr # None
    /\ hdr.mesh_count > 0
    /\ hdr.cmd_offset > Len(data)

\* a quad command whose UV pairs start at offset uv: two triangles (c,b,a)
\* and (d,c,a) tagged with mesh_id, the corners of the first taking the UV
\* pairs at offsets o0, o1, o2 and those of the second the pairs at o3, o4, o5
QuadStep(op, o0, o1, o2, o3, o4, o5) ==
    AtCommand(op) =>
        LET a == LE16(data, p + 2)
            b == LE16(data, p + 4)
            c == LE16(data, p + 6)
            dd == LE16(data, p + 8)
            n == Len(tris)
        IN /\ Appends(2)
           /\ tris'[n + 1] = <<c, b, a>>
           /\ tris'[n + 2] = <<dd, c, a>>
           /\ mat_ids'[n + 1] = data[p + 2]
           /\ mat_ids'[n + 2] = data[p + 2]
           /\ Len(uvs_per_tri'[n + 1]) = 3
           /\ Len(uvs_per_tri'[n + 2]) = 3
           /\ CornerIs(uvs_per_tri'[n + 1][1], data, p + o0)
           /\ CornerIs(uvs_per_tri'[n + 1][2], data, p + o1)
           /\ CornerIs(uvs_per_tri'[n + 1][3], data, p + o2)
           /\ CornerIs(uvs_per_tri'[n + 2][1], data, p + o3)
           /\ CornerIs(uvs_per_tri'[n + 2][2], data, p + o4)
           /\ CornerIs(uvs_per_tri'[n + 2][3], data, p + o5)

\* C7 as stated: the pairs at 0x0C, 0x0E, 0x10, 0x12 (0x14, 0x16, 0x18, 0x1A
\* for 0x17) are the UVs A, B, C, D in that order; the first triangle takes
\* (A, B, C) and the second (D, A, C).
C7_QuadFileOrder ==
    [][ /\ QuadStep(21, 12, 14, 16, 18, 12, 16)
        /\ QuadStep(23, 20, 22, 24, 26, 20, 24) ]_vars

\* C7: a 0x15 command (and a 0x17 command) emits exactly two triangles,
\* (c,b,a) then (d,c,a), both tagged with the command's mesh_id byte; the
\* pairs at 0x0C, 0x0E, 0x10, 0x12 (0x14, 0x16, 0x18, 0x1A for 0x17) are the
\* UVs C, B, A, D; the first triangle takes (A, B, C) and the second
\* (D, A, C).
C7_Quad ==
    [][ /\ QuadStep(21, 16, 14, 12, 18, 16, 12)
        /\ QuadStep(23, 24, 22, 20, 26, 24, 20) ]_vars

C7_Witness ==
    /\ pc = "returned"
    /\ poly_cmd_count = 2
    /\ data[cmd_offset + 1] = 21
    /\ cmd_offset + 24 < Len(data)
    /\ data[cmd_offset + 25] = 23
    /\ Len(ret.tris) = 4

\* a single triangle command with UVs: triangle (c,b,a) tagged with mesh_id,
\* corners 0, 1, 2 taking the UV pairs at offsets o0, o1, o2
TriStep(op, o0, o1, o2) ==
    AtCommand(op) =>
        LET a == LE16(data, p + 2)
            b == LE16(data, p + 4)
            c == LE16(data, p + 6)
            n == Len(tris)
        IN /\ Appends(1)
           /\ tris'[n + 1] = <<c, b, a>>
           /\ mat_ids'[n + 1] = data[p + 2]
           /\ Len(uvs_per_tri'[n + 1]) = 3
           /\ CornerIs(uvs_per_tri'[n + 1][1], data, p + o0)
           /\ CornerIs(uvs_per_tri'[n + 1][2], data, p + o1)
           /\ CornerIs(uvs_per_tri'[n + 1][3], data, p + o2)

\* C8: a 0x14 command emits the single triangle (c,b,a) whose corners 0, 1, 2
\* take the UV bytes at 0x0E/0x0F, 0x0C/0x0D, 0x0A/0x0B, each byte / 256; a
\* 0x16 command emits the same with the three pairs 4 bytes later.
C8_Tri ==
    [][ /\ TriStep(20, 14, 12, 10)
        /\ TriStep(22, 18, 16, 14) ]_vars

C8_Witness ==
    /\ pc = "returned"
    /\ poly_cmd_count = 2
    /\ data[cmd_offset + 1] = 20
    /\ cmd_offset + 20 < Len(data)
    /\ data[cmd_offset + 21] = 22
    /\ Len(ret.tris) = 2

\* a triangle command without UVs: one triangle tagged with mesh_id and
\* three (0, 0) corners
PlainStep(op, t) ==
    AtCommand(op) =>
        LET n == Len(tris)
        IN /\ Appends(1)
           /\ tris'[n + 1] = t
           /\ mat_ids'[n + 1] = data[p + 2]
           /\ Len(uvs_per_tri'[n + 1]) = 3
           /\ \A k \in 1..3 : CornerIsZero(uvs_per_tri'[n + 1][k])

\* C9: a 0x10 command emits exactly one triangle (a,b,c) in file order and a
\* 0x12 command exactly one triangle (c,b,a); both give it three (0,0) UV
\* corners and the command's mesh_id byte, and the indices are stored as
\* read, whatever their values.
C9_Plain ==
    [][ /\ PlainStep(16, <<LE16(data, p + 2), LE16(data, p + 4), LE16(data, p + 6)>>)
        /\ PlainStep(18, <<LE16(data, p + 6), LE16(data, p + 4), LE16(data, p + 2)>>) ]_vars

C9_Witness ==
    /\ pc = "returned"
    /\ poly_cmd_count = 2
    /\ data[cmd_offset + 1] = 16
    /\ cmd_offset + 16 < Len(data)
    /\ data[cmd_offset + 17] = 18
    /\ Len(ret.tris) = 2
    /\ ret.tris[1][1] > 255

\* the buffer holds cnt complete records of known opcodes from offset off
RECURSIVE WellFormed(_, _, _)
WellFormed(d, off, cnt) ==
    \/ cnt = 0
    \/ /\ off < Len(d)
       /\ d[off + 1] \in KnownOps
       /\ off + RecordLength(d[off + 1]) <= Len(d)
       /\ WellFormed(d, off + RecordLength(d[off + 1]), cnt - 1)

\* the offset at which command k of a well-formed stream starts
RECURSIVE StartOf(_, _, _)
StartOf(d, off, k) ==
    IF k = 0 THEN off ELSE StartOf(d, off + RecordLength(d[off + 1]), k - 1)

\* C10: on a stream of poly_cmd_count well-formed commands the interpreter
\* consumes exactly poly_cmd_count commands, command k starting at cmd_offset
\* plus the record lengths of commands 0..k-1; a 0x13 command emits no
\* triangle and advances the cursor by 0x16; and the call succeeds after
\* the last command even when unread bytes remain.
C10_Cursor ==
    /\ [](WellFormed(data, cmd_offset, poly_cmd_count) =>
            /\ pc \in {"parse", "returned"}
            /\ cmd_idx <= poly_cmd_count
            /\ p = StartOf(data, cmd_offset, cmd_idx)
            /\ pc = "returned" => (cmd_idx = poly_cmd_count /\ ret # None))
    /\ [][ AtCommand(19) => (Appends(0) /\ p' = p + 22 /\ cmd_idx' = cmd_idx + 1) ]_vars

C10_Witness ==
    /\ pc = "returned"
    /\ poly_cmd_count >= 1
    /\ WellFormed(data, cmd_offset, poly_cmd_count)
    /\ data[cmd_offset + 1] = 19
    /\ p < Len(data)
    /\ ret.tris = <<>>

====
